---- MODULE Spec2Model ----
(***************************************************************************)
(* Ride-log graph analytics (final_project/project/src/main.rs).           *)
(*                                                                         *)
(* Four specifications over one set of variables:                          *)
(*   Spec        main(): unique_nodes, adjacency_list, the top 5 routes,   *)
(*               popular_hubs, shortest_path of the most frequent route,   *)
(*               bfs from every node;                                      *)
(*   SpecRoutes  a call of most_frequent_pairs;                            *)
(*   SpecHubs    two calls of popular_hubs on the same records;            *)
(*   SpecPath    a call of shortest_path, one loop iteration per step.     *)
(*                                                                         *)
(* Rust values are modelled as follows.                                    *)
(*   String            a sequence of byte values ("" is << >>)             *)
(*   Vec<T>            a sequence; Rust index i is position i + 1          *)
(*   Option<T>         << >> for None, << x >> for Some(x)                 *)
(*   HashSet/HashMap   a set / a function, iterated in an order that the   *)
(*                     program does not control (any permutation)          *)
(***************************************************************************)
EXTENDS Integers, Sequences, FiniteSets, TLC

VARIABLES
    \* ---- pipeline of main() ----
    rides,       \* the filtered records: sequence of <<start, stop, category>>
    pc,          \* position in main()
    nodes,       \* result of unique_nodes
    adjacency,   \* first component of adjacency_list's result
    locations,   \* second component of adjacency_list's result
    top,         \* << k, most_frequent_pairs(rides, k) >> of the call
    hubs,        \* the results of the calls of popular_hubs, oldest first
    all,         \* the distance tables, one per source
    \* ---- one call of shortest_path ----
    adj, start, end,          \* the arguments
    spc,                      \* position in shortest_path
    prev, distance, queue,    \* the locals of the BFS loop
    path, current,            \* the locals of the reconstruction loop
    result,                   \* the returned Option<Vec<usize>>, in << >> until return
    pushed                    \* history: pushed[v+1] = number of queue.push_back(v)

buildVars == <<rides, pc, nodes, adjacency, locations, top, hubs, all>>
buildVarsButPc == <<rides, nodes, adjacency, locations, top, hubs, all>>
pathVars  == <<adj, start, end, spc, prev, distance, queue, path, current, result, pushed>>
vars      == <<rides, pc, nodes, adjacency, locations, top, hubs, all,
               adj, start, end, spc, prev, distance, queue, path, current, result, pushed>>

(***************************************************************************)
(* Bounds                                                                  *)
(***************************************************************************)
NumNames    == 3    \* location names in the inputs of the graph builder
NumAggNames == 2    \* location names in the inputs of the route aggregator
MaxRides    == 3    \* records in an input
MaxK        == 3    \* the greatest most_frequent asked for
MaxNodes    == 3    \* nodes of an adjacency structure given to shortest_path
MaxEdges    == 3    \* edges of an adjacency structure given to shortest_path

(***************************************************************************)
(* Values                                                                  *)
(***************************************************************************)
None == << >>
Some(x) == << x >>
IsNone(o) == o = << >>
Unwrap(o) == o[1]

Business == "Business"
Personal == "Personal"
Category == {Business, Personal}

\* The i-th location name, i >= 1, over the letters 'A' (65) and 'B' (66):
\* "A", "B", "AA", "AB", "BA", "BB", "AAA", ...
RECURSIVE NameOf(_)
NameOf(i) == IF i = 0 THEN << >>
             ELSE Append(NameOf((i - 1) \div 2), 65 + ((i - 1) % 2))

Names    == {NameOf(i) : i \in 1..NumNames}
AggNames == {NameOf(i) : i \in 1..NumAggNames}

SeqsUpTo(S, n) == UNION {[1..m -> S] : m \in 0..n}

\* Every order in which the elements of the finite set S can be iterated.
RECURSIVE Orders(_)
Orders(S) ==
    IF S = {} THEN {<< >>}
    ELSE UNION {{<< x >> \o f : f \in Orders(S \ {x})} : x \in S}

Min(a, b) == IF a < b THEN a ELSE b

\* Vec::reverse
Reverse(s) == [i \in 1..Len(s) |-> s[Len(s) + 1 - i]]

(***************************************************************************)
(* String and tuple comparison (Ord for String and for (String, String))   *)
(***************************************************************************)
RECURSIVE StrLess(_, _)
StrLess(a, b) ==
    IF a = << >> THEN b # << >>
    ELSE IF b = << >> THEN FALSE
    ELSE IF Head(a) # Head(b) THEN Head(a) < Head(b)
    ELSE StrLess(Tail(a), Tail(b))

PairLess(p, q) == StrLess(p[1], q[1]) \/ (p[1] = q[1] /\ StrLess(p[2], q[2]))

(***************************************************************************)
(* unique_nodes                                                            *)
(***************************************************************************)
RECURSIVE unique_nodes(_)
unique_nodes(rs) ==
    IF rs = << >> THEN {}
    ELSE {Head(rs)[1], Head(rs)[2]} \cup unique_nodes(Tail(rs))

(***************************************************************************)
(* adjacency_list                                                          *)
(***************************************************************************)
\* locations.sort(): insertion of x into the sorted sequence s.
RECURSIVE InsertName(_, _)
InsertName(s, x) ==
    IF s = << >> THEN << x >>
    ELSE IF StrLess(x, Head(s)) THEN << x >> \o s
    ELSE << Head(s) >> \o InsertName(Tail(s), x)

\* Variant: the collected names are left in iteration order.
SortNamesSkipped(s) == s

RECURSIVE SortNames(_)
SortNames(s) ==
    IF s = << >> THEN << >>
    ELSE InsertName(SortNames(SubSeq(s, 1, Len(s) - 1)), s[Len(s)])

\* The name -> index map: index.insert(name.clone(), i) for i in enumerate().
IndexMap(locs) ==
    [name \in {locs[i] : i \in DOMAIN locs} |->
        (CHOOSE i \in DOMAIN locs :
            locs[i] = name /\ \A j \in DOMAIN locs : locs[j] = name => j <= i) - 1]

\* Variant: the edge is stored at its destination.
RECURSIVE PushEdgesReversed(_, _, _)
PushEdgesReversed(rs, index, a) ==
    IF rs = << >> THEN a
    ELSE LET r == Head(rs)
             a1 == IF r[1] \in DOMAIN index /\ r[2] \in DOMAIN index
                   THEN [a EXCEPT ![index[r[2]] + 1] = Append(@, index[r[1]])]
                   ELSE a
         IN  PushEdgesReversed(Tail(rs), index, a1)

\* The loop over the rides that pushes v to adjacency[u].
RECURSIVE PushEdges(_, _, _)
PushEdges(rs, index, a) ==
    IF rs = << >> THEN a
    ELSE LET r == Head(rs)
             a1 == IF r[1] \in DOMAIN index /\ r[2] \in DOMAIN index
                   THEN [a EXCEPT ![index[r[1]] + 1] = Append(@, index[r[2]])]
                   ELSE a
         IN  PushEdges(Tail(rs), index, a1)

\* order: the order in which nodes.iter() yields the set.
adjacency_list(rs, ns, order) ==
    LET locs  == SortNames(order)
        index == IndexMap(locs)
        empty == [i \in 1..Len(locs) |-> << >>]
    IN  << PushEdges(rs, index, empty), locs >>

(***************************************************************************)
(* most_frequent_pairs                                                     *)
(***************************************************************************)
EmptyMap == [x \in {} |-> 0]

\* *map.entry(key).or_insert(0) += 1
Bump(map, key) ==
    IF key \in DOMAIN map THEN [map EXCEPT ![key] = @ + 1] ELSE map @@ (key :> 1)

RECURSIVE CountPairs(_, _)
CountPairs(rs, count) ==
    IF rs = << >> THEN count
    ELSE CountPairs(Tail(rs), Bump(count, << Head(rs)[1], Head(rs)[2] >>))

\* Variant: the comparator without the tie-break on the pair.
RouteBeforeCountOnly(a, b) == b[2] < a[2]

\* The comparator of sort_by: a goes before b.
RouteBefore(a, b) == b[2] < a[2] \/ (b[2] = a[2] /\ PairLess(a[1], b[1]))

RECURSIVE InsertRoute(_, _)
InsertRoute(s, x) ==
    IF s = << >> THEN << x >>
    ELSE IF RouteBefore(x, Head(s)) THEN << x >> \o s
    ELSE << Head(s) >> \o InsertRoute(Tail(s), x)

RECURSIVE SortRoutes(_)
SortRoutes(s) ==
    IF s = << >> THEN << >>
    ELSE InsertRoute(SortRoutes(SubSeq(s, 1, Len(s) - 1)), s[Len(s)])

\* Vec::truncate
Truncate(s, n) == SubSeq(s, 1, Min(n, Len(s)))

\* order: the order in which count.into_iter() yields the keys.
most_frequent_pairs(rs, most_frequent, order) ==
    LET count        == CountPairs(rs, EmptyMap)
        pairs_counts == [i \in 1..Len(order) |-> << order[i], count[order[i]] >>]
    IN  Truncate(SortRoutes(pairs_counts), most_frequent)

(***************************************************************************)
(* popular_hubs                                                            *)
(***************************************************************************)
\* Variant: only the start of a ride is tallied.
RECURSIVE HubCountsStartOnly(_, _, _)
HubCountsStartOnly(rs, personal_counts, business_counts) ==
    IF rs = << >> THEN << personal_counts, business_counts >>
    ELSE LET r == Head(rs)
         IN  IF r[3] = Personal
             THEN HubCountsStartOnly(Tail(rs), Bump(personal_counts, r[1]), business_counts)
             ELSE HubCountsStartOnly(Tail(rs), personal_counts, Bump(business_counts, r[1]))

\* The loop over the rides: << personal_counts, business_counts >>.
RECURSIVE HubCounts(_, _, _)
HubCounts(rs, personal_counts, business_counts) ==
    IF rs = << >> THEN << personal_counts, business_counts >>
    ELSE LET r == Head(rs)
         IN  IF r[3] = Personal
             THEN HubCounts(Tail(rs), Bump(Bump(personal_counts, r[1]), r[2]), business_counts)
             ELSE HubCounts(Tail(rs), personal_counts, Bump(Bump(business_counts, r[1]), r[2]))

\* Iterator::max_by_key over the entries in iteration order: the last of the
\* entries with the greatest count; best is an Option of the entry's key.
RECURSIVE MaxByKey(_, _, _)
MaxByKey(map, order, best) ==
    IF order = << >> THEN best
    ELSE IF IsNone(best) \/ map[Unwrap(best)] <= map[Head(order)]
         THEN MaxByKey(map, Tail(order), Some(Head(order)))
         ELSE MaxByKey(map, Tail(order), best)

\* order: the order in which map.iter() yields the keys.
highest_val(map, order) ==
    LET m == MaxByKey(map, order, None)
    IN  IF IsNone(m) THEN << >> ELSE Unwrap(m)

popular_hubs(rs, personal_order, business_order) ==
    LET counts == HubCounts(rs, EmptyMap, EmptyMap)
    IN  << highest_val(counts[1], personal_order), highest_val(counts[2], business_order) >>

(***************************************************************************)
(* bfs (module stats): distances from one source to every node             *)
(***************************************************************************)
\* The scan of the neighbours nbrs of u: << distance, queue >>.
RECURSIVE BfsScan(_, _, _, _)
BfsScan(nbrs, u, dist, q) ==
    IF nbrs = << >> THEN << dist, q >>
    ELSE LET v == Head(nbrs)
         IN  IF IsNone(dist[v + 1])
             THEN BfsScan(Tail(nbrs), u,
                          [dist EXCEPT ![v + 1] = Some(Unwrap(dist[u + 1]) + 1)],
                          Append(q, v))
             ELSE BfsScan(Tail(nbrs), u, dist, q)

RECURSIVE BfsLoop(_, _, _)
BfsLoop(a, dist, q) ==
    IF q = << >> THEN dist
    ELSE LET s == BfsScan(a[Head(q) + 1], Head(q), dist, Tail(q))
         IN  BfsLoop(a, s[1], s[2])

\* Variant: the source starts at distance 1.
bfsFromOne(a, source) ==
    BfsLoop(a, [[i \in 1..Len(a) |-> None] EXCEPT ![source + 1] = Some(1)], << source >>)

bfs(a, source) ==
    BfsLoop(a, [[i \in 1..Len(a) |-> None] EXCEPT ![source + 1] = Some(0)], << source >>)

(***************************************************************************)
(* The values of the variables that a specification does not use.          *)
(***************************************************************************)
PathIdle ==
    /\ adj = << >> /\ start = 0 /\ end = 0 /\ spc = "idle"
    /\ prev = << >> /\ distance = << >> /\ queue = << >>
    /\ path = << >> /\ current = 0 /\ result = << >> /\ pushed = << >>

BuildIdle ==
    /\ nodes = {} /\ adjacency = << >> /\ locations = << >>
    /\ top = << 0, << >> >> /\ hubs = << >> /\ all = << >>

(***************************************************************************)
(* most_frequent_pairs, one call; it does not read the category.           *)
(***************************************************************************)
InitRoutes ==
    /\ rides \in SeqsUpTo(AggNames \X AggNames \X {Personal}, MaxRides)
    /\ pc = "most_frequent_pairs"
    /\ BuildIdle
    /\ PathIdle

MostFrequentPairs ==
    /\ pc = "most_frequent_pairs"
    /\ \E k \in 0..MaxK :
       \E order \in Orders(DOMAIN CountPairs(rides, EmptyMap)) :
          top' = << k, most_frequent_pairs(rides, k, order) >>
    /\ pc' = "done"
    /\ UNCHANGED <<rides, nodes, adjacency, locations, hubs, all>>
    /\ UNCHANGED pathVars

NextRoutes == MostFrequentPairs

SpecRoutes == InitRoutes /\ [][NextRoutes]_vars

(***************************************************************************)
(* popular_hubs, called twice on the same records.                         *)
(***************************************************************************)
InitHubs ==
    /\ rides \in SeqsUpTo(AggNames \X AggNames \X Category, MaxRides)
    /\ pc = "popular_hubs"
    /\ BuildIdle
    /\ PathIdle

PopularHubs ==
    /\ pc = "popular_hubs"
    /\ LET counts == HubCounts(rides, EmptyMap, EmptyMap)
       IN  \E personal_order \in Orders(DOMAIN counts[1]) :
           \E business_order \in Orders(DOMAIN counts[2]) :
              hubs' = Append(hubs, popular_hubs(rides, personal_order, business_order))
    /\ pc' = IF hubs = << >> THEN "popular_hubs" ELSE "done"
    /\ UNCHANGED <<rides, nodes, adjacency, locations, top, all>>
    /\ UNCHANGED pathVars

NextHubs == PopularHubs

SpecHubs == InitHubs /\ [][NextHubs]_vars

(***************************************************************************)
(* shortest_path, one call: the arguments are any adjacency structure of   *)
(* at most MaxNodes nodes and MaxEdges edges whose entries are valid       *)
(* indices, and any start and end in 0..N (N itself is out of range).      *)
(***************************************************************************)
AdjOf(n, es) ==
    PushEdges([i \in 1..Len(es) |-> << es[i][1], es[i][2], Personal >>],
              [x \in 0..(n - 1) |-> x],
              [i \in 1..n |-> << >>])

AdjSet(n) == {AdjOf(n, es) : es \in SeqsUpTo((0..(n - 1)) \X (0..(n - 1)), MaxEdges)}

\* Variant: the scan without the test distance[v].is_none().
RECURSIVE ScanUnchecked(_, _, _)
ScanUnchecked(nbrs, u, st) ==
    IF nbrs = << >> THEN st
    ELSE LET v == Head(nbrs)
         IN  ScanUnchecked(Tail(nbrs), u,
                 [distance |-> [st.distance EXCEPT
                                   ![v + 1] = Some(Unwrap(st.distance[u + 1]) + 1)],
                  prev     |-> [st.prev EXCEPT ![v + 1] = Some(u)],
                  queue    |-> Append(st.queue, v),
                  pushed   |-> [st.pushed EXCEPT ![v + 1] = @ + 1]])

\* for &v in &adj[u] { if distance[v].is_none() { ... } }
RECURSIVE Scan(_, _, _)
Scan(nbrs, u, st) ==
    IF nbrs = << >> THEN st
    ELSE LET v == Head(nbrs)
         IN  IF IsNone(st.distance[v + 1])
             THEN Scan(Tail(nbrs), u,
                       [distance |-> [st.distance EXCEPT
                                         ![v + 1] = Some(Unwrap(st.distance[u + 1]) + 1)],
                        prev     |-> [st.prev EXCEPT ![v + 1] = Some(u)],
                        queue    |-> Append(st.queue, v),
                        pushed   |-> [st.pushed EXCEPT ![v + 1] = @ + 1]])
             ELSE Scan(Tail(nbrs), u, st)

InitPath ==
    /\ \E n \in 0..MaxNodes :
          /\ adj \in AdjSet(n)
          /\ start \in 0..n
          /\ end \in 0..n
    /\ spc = "call"
    /\ prev = << >> /\ distance = << >> /\ queue = << >>
    /\ path = << >> /\ current = 0 /\ result = << >> /\ pushed = << >>
    /\ rides = << >> /\ pc = "idle"
    /\ BuildIdle

\* The set-up of the locals; distance[start] = Some(0) panics when start is out of bounds.
SpSetup ==
    /\ spc = "call"
    /\ IF start < Len(adj)
       THEN /\ prev' = [i \in 1..Len(adj) |-> None]
            /\ distance' = [[i \in 1..Len(adj) |-> None] EXCEPT ![start + 1] = Some(0)]
            /\ queue' = << start >>
            /\ pushed' = [[i \in 1..Len(adj) |-> 0] EXCEPT ![start + 1] = 1]
            /\ spc' = "loop"
       ELSE /\ spc' = "panic"
            /\ UNCHANGED <<prev, distance, queue, pushed>>
    /\ UNCHANGED <<adj, start, end, path, current, result>>
    /\ UNCHANGED buildVars

\* while let Some(u) = queue.pop_front(): the queue is empty.
SpLoopEnd ==
    /\ spc = "loop"
    /\ queue = << >>
    /\ spc' = "check"
    /\ UNCHANGED <<adj, start, end, prev, distance, queue, path, current, result, pushed>>
    /\ UNCHANGED buildVars

\* if u == end { break; }
SpBreak ==
    /\ spc = "loop"
    /\ queue # << >>
    /\ Head(queue) = end
    /\ queue' = Tail(queue)
    /\ spc' = "check"
    /\ UNCHANGED <<adj, start, end, prev, distance, path, current, result, pushed>>
    /\ UNCHANGED buildVars

\* One iteration of the while loop that scans adj[u].
SpVisit ==
    /\ spc = "loop"
    /\ queue # << >>
    /\ Head(queue) # end
    /\ LET u  == Head(queue)
           st == Scan(adj[u + 1], u,
                      [distance |-> distance, prev |-> prev,
                       queue |-> Tail(queue), pushed |-> pushed])
       IN  /\ distance' = st.distance
           /\ prev' = st.prev
           /\ queue' = st.queue
           /\ pushed' = st.pushed
    /\ UNCHANGED <<adj, start, end, spc, path, current, result>>
    /\ UNCHANGED buildVars

\* Variant: the test reads prev[end] in place of distance[end].
SpCheckPrev ==
    /\ spc = "check"
    /\ IF ~(end < Len(adj))
       THEN spc' = "panic" /\ UNCHANGED <<result, current>>
       ELSE IF IsNone(prev[end + 1])
       THEN spc' = "done" /\ result' = << None >> /\ UNCHANGED current
       ELSE spc' = "walk" /\ current' = end /\ UNCHANGED result
    /\ UNCHANGED <<adj, start, end, prev, distance, queue, path, pushed>>
    /\ UNCHANGED buildVars

\* Variant: the test reads distance.get(end), which is None out of bounds.
SpCheckGet ==
    /\ spc = "check"
    /\ IF ~(end < Len(adj)) \/ IsNone(distance[end + 1])
       THEN spc' = "done" /\ result' = << None >> /\ UNCHANGED current
       ELSE spc' = "walk" /\ current' = end /\ UNCHANGED result
    /\ UNCHANGED <<adj, start, end, prev, distance, queue, path, pushed>>
    /\ UNCHANGED buildVars

\* if distance[end].is_none() { return None; } distance[end] panics when end is out of bounds.
SpCheck ==
    /\ spc = "check"
    /\ IF ~(end < Len(adj))
       THEN spc' = "panic" /\ UNCHANGED <<result, current>>
       ELSE IF IsNone(distance[end + 1])
       THEN spc' = "done" /\ result' = << None >> /\ UNCHANGED current
       ELSE spc' = "walk" /\ current' = end /\ UNCHANGED result
    /\ UNCHANGED <<adj, start, end, prev, distance, queue, path, pushed>>
    /\ UNCHANGED buildVars

\* while let Some(p) = prev[current] { path.push(current); current = p; }
SpWalk ==
    /\ spc = "walk"
    /\ ~IsNone(prev[current + 1])
    /\ path' = Append(path, current)
    /\ current' = Unwrap(prev[current + 1])
    /\ UNCHANGED <<adj, start, end, spc, prev, distance, queue, result, pushed>>
    /\ UNCHANGED buildVars

\* Variant: the path is returned as collected, from end back to start.
SpReturnUnreversed ==
    /\ spc = "walk"
    /\ IsNone(prev[current + 1])
    /\ path' = Append(path, start)
    /\ result' = << Some(path') >>
    /\ spc' = "done"
    /\ UNCHANGED <<adj, start, end, prev, distance, queue, current, pushed>>
    /\ UNCHANGED buildVars

\* path.push(start); path.reverse(); Some(path)
SpReturn ==
    /\ spc = "walk"
    /\ IsNone(prev[current + 1])
    /\ path' = Reverse(Append(path, start))
    /\ result' = << Some(path') >>
    /\ spc' = "done"
    /\ UNCHANGED <<adj, start, end, prev, distance, queue, current, pushed>>
    /\ UNCHANGED buildVars

NextPath == SpSetup \/ SpLoopEnd \/ SpBreak \/ SpVisit \/ SpCheck \/ SpWalk \/ SpReturn

SpecPath == InitPath /\ [][NextPath]_vars

\* A call runs to its return or its panic: it is never suspended.
FairSpecPath == SpecPath /\ WF_vars(NextPath)

(***************************************************************************)
(* shortest_path as one call: the state in which the call ends.            *)
(***************************************************************************)
\* The while loop, from the state st of distance, prev, queue and pushed.
RECURSIVE SpLoopRun(_, _, _)
SpLoopRun(a, e, st) ==
    IF st.queue = << >> THEN st
    ELSE LET u    == Head(st.queue)
             rest == [st EXCEPT !.queue = Tail(st.queue)]
         IN  IF u = e THEN rest
             ELSE SpLoopRun(a, e, Scan(a[u + 1], u, rest))

\* The predecessor walk: << path, current >> when prev[current] is None.
RECURSIVE SpWalkRun(_, _, _)
SpWalkRun(pv, cur, p) ==
    IF IsNone(pv[cur + 1]) THEN << p, cur >>
    ELSE SpWalkRun(pv, Unwrap(pv[cur + 1]), Append(p, cur))

ShortestPathRun(a, s, e) ==
    IF ~(s < Len(a))
    THEN [spc |-> "panic", prev |-> << >>, distance |-> << >>, queue |-> << >>,
          pushed |-> << >>, path |-> << >>, current |-> 0, result |-> << >>]
    ELSE LET st == SpLoopRun(a, e,
                     [distance |-> [[i \in 1..Len(a) |-> None] EXCEPT ![s + 1] = Some(0)],
                      prev     |-> [i \in 1..Len(a) |-> None],
                      queue    |-> << s >>,
                      pushed   |-> [[i \in 1..Len(a) |-> 0] EXCEPT ![s + 1] = 1]])
             w  == SpWalkRun(st.prev, e, << >>)
         IN  IF ~(e < Len(a))
             THEN [spc |-> "panic", prev |-> st.prev, distance |-> st.distance,
                   queue |-> st.queue, pushed |-> st.pushed,
                   path |-> << >>, current |-> 0, result |-> << >>]
             ELSE IF IsNone(st.distance[e + 1])
             THEN [spc |-> "done", prev |-> st.prev, distance |-> st.distance,
                   queue |-> st.queue, pushed |-> st.pushed,
                   path |-> << >>, current |-> 0, result |-> << None >>]
             ELSE [spc |-> "done", prev |-> st.prev, distance |-> st.distance,
                   queue |-> st.queue, pushed |-> st.pushed,
                   path |-> Reverse(Append(w[1], s)), current |-> w[2],
                   result |-> << Some(Reverse(Append(w[1], s))) >>]

\* The Option returned by a call with valid indices.
shortest_path(a, s, e) == ShortestPathRun(a, s, e).result[1]

(***************************************************************************)
(* main(), from the filtered rides to the graph statistics.  The inputs    *)
(* are records of one category, as in the test cycle of read_file; inputs  *)
(* of both categories are those of SpecHubs, the only place that reads it. *)
(***************************************************************************)
TopN == 5

\* locs.iter().position(|x| x == name)
Position(locs, name) ==
    IF \E i \in DOMAIN locs : locs[i] = name
    THEN Some((CHOOSE i \in DOMAIN locs :
                   locs[i] = name /\ \A j \in DOMAIN locs : locs[j] = name => i <= j) - 1)
    ELSE None

Init ==
    /\ rides \in SeqsUpTo(Names \X Names \X {Personal}, MaxRides)
    /\ pc = "unique_nodes"
    /\ BuildIdle
    /\ PathIdle

UniqueNodes ==
    /\ pc = "unique_nodes"
    /\ nodes' = unique_nodes(rides)
    /\ pc' = "adjacency_list"
    /\ UNCHANGED <<rides, adjacency, locations, top, hubs, all>>
    /\ UNCHANGED pathVars

AdjacencyList ==
    /\ pc = "adjacency_list"
    /\ \E order \in Orders(nodes) :
          LET r == adjacency_list(rides, nodes, order)
          IN  adjacency' = r[1] /\ locations' = r[2]
    /\ pc' = "top5"
    /\ UNCHANGED <<rides, nodes, top, hubs, all>>
    /\ UNCHANGED pathVars

\* let top5 = most_frequent_pairs(&rides, 5);
TopRoutes ==
    /\ pc = "top5"
    /\ \E order \in Orders(DOMAIN CountPairs(rides, EmptyMap)) :
          top' = << TopN, most_frequent_pairs(rides, TopN, order) >>
    /\ pc' = "hubs"
    /\ UNCHANGED <<rides, nodes, adjacency, locations, hubs, all>>
    /\ UNCHANGED pathVars

\* let (personal, business) = popular_hubs(&rides);
Hubs ==
    /\ pc = "hubs"
    /\ LET counts == HubCounts(rides, EmptyMap, EmptyMap)
       IN  \E personal_order \in Orders(DOMAIN counts[1]) :
           \E business_order \in Orders(DOMAIN counts[2]) :
              hubs' = << popular_hubs(rides, personal_order, business_order) >>
    /\ pc' = "path"
    /\ UNCHANGED <<rides, nodes, adjacency, locations, top, all>>
    /\ UNCHANGED pathVars

\* if let Some(((from, to), _count)) = top5.get(0): the shortest path of
\* the most frequent route.
TopRoutePath ==
    /\ pc = "path"
    /\ top[2] # << >>
    /\ LET from == top[2][1][1][1]
           to   == top[2][1][1][2]
           si   == Position(locations, from)
           ei   == Position(locations, to)
       IN  /\ ~IsNone(si) /\ ~IsNone(ei)
           /\ LET r == ShortestPathRun(adjacency, Unwrap(si), Unwrap(ei))
              IN  /\ adj' = adjacency
                  /\ start' = Unwrap(si)
                  /\ end' = Unwrap(ei)
                  /\ spc' = r.spc
                  /\ prev' = r.prev
                  /\ distance' = r.distance
                  /\ queue' = r.queue
                  /\ pushed' = r.pushed
                  /\ path' = r.path
                  /\ current' = r.current
                  /\ result' = r.result
    /\ pc' = "bfs"
    /\ UNCHANGED buildVarsButPc

\* top5 is empty: shortest_path is not called.
NoTopRoute ==
    /\ pc = "path"
    /\ top[2] = << >>
    /\ pc' = "bfs"
    /\ UNCHANGED buildVarsButPc
    /\ UNCHANGED pathVars

\* for i in 0..adj.len() { all.push(bfs(&adj, i)); }
AllBfs ==
    /\ pc = "bfs"
    /\ all' = [i \in 1..Len(adjacency) |-> bfs(adjacency, i - 1)]
    /\ pc' = "done"
    /\ UNCHANGED <<rides, nodes, adjacency, locations, top, hubs>>
    /\ UNCHANGED pathVars

Next ==
    UniqueNodes \/ AdjacencyList \/ TopRoutes \/ Hubs \/ TopRoutePath \/ NoTopRoute \/ AllBfs

Spec == Init /\ [][Next]_vars

(***************************************************************************)
(* Notions the properties are stated in, defined without the code.         *)
(***************************************************************************)
Range(s) == {s[i] : i \in DOMAIN s}

\* Lexicographic order of byte strings: a proper prefix, or a smaller byte
\* at the first position where the strings differ.
LexLt(a, b) ==
    \E k \in 0..Min(Len(a), Len(b)) :
        /\ \A i \in 1..k : a[i] = b[i]
        /\ \/ k = Len(a) /\ k < Len(b)
           \/ k < Len(a) /\ k < Len(b) /\ a[k + 1] < b[k + 1]

PairLt(p, q) == LexLt(p[1], q[1]) \/ (p[1] = q[1] /\ LexLt(p[2], q[2]))

\* The nodes that at most n directed edges lead to from s.
RECURSIVE Within(_, _, _)
Within(a, s, n) ==
    IF n = 0 THEN {s}
    ELSE LET W == Within(a, s, n - 1)
         IN  W \cup UNION {Range(a[u + 1]) : u \in W}

Reachable(a, s, e) == e \in Within(a, s, Len(a))

\* The least number of edges of a directed walk from s to e (e reachable).
HopDistance(a, s, e) ==
    CHOOSE n \in 0..Len(a) :
        e \in Within(a, s, n) /\ (n = 0 \/ e \notin Within(a, s, n - 1))

InRange == start < Len(adj) /\ end < Len(adj)
Returned == spc = "done"
ReturnedPath == spc = "done" /\ ~IsNone(result[1])
Occurrences(s, x) == Cardinality({i \in DOMAIN s : s[i] = x})

(***************************************************************************)
(* Properties of shortest_path (SpecPath, FairSpecPath)                    *)
(***************************************************************************)
\* C1: a returned path starts at start, ends at end, and its length is the
\* hop distance from start to end plus 1; start = end gives << start >>.
C1_PathEndsAndLength ==
    ReturnedPath =>
        LET p == Unwrap(result[1])
        IN  /\ Len(p) >= 1
            /\ p[1] = start
            /\ p[Len(p)] = end
            /\ Len(p) = HopDistance(adj, start, end) + 1
            /\ (start = end => p = << start >>)

C1_Witness ==
    /\ ReturnedPath
    /\ Len(Unwrap(result[1])) = 3
    /\ Len(adj[start + 1]) >= 2

\* C2: with valid indices the call does not fail, and it returns None
\* exactly when end is not reachable from start.
C2_NoneIffUnreachable ==
    InRange =>
        /\ spc # "panic"
        /\ (Returned => (IsNone(result[1]) <=> ~Reachable(adj, start, end)))

C2_Witness ==
    /\ Returned
    /\ IsNone(result[1])
    /\ Len(adj) = 3
    /\ Cardinality(Within(adj, start, Len(adj))) = 2

\* C8: a call with start or end out of range never returns, and it ends in
\* the index panic.
C8_OutOfRangePanics ==
    /\ [](~InRange => ~Returned)
    /\ ((spc = "call" /\ ~InRange) ~> (spc = "panic"))

C8_Witness ==
    /\ spc = "panic"
    /\ start < Len(adj)
    /\ ~(end < Len(adj))
    /\ \E v \in 0..(Len(adj) - 1) : v # start /\ ~IsNone(distance[v + 1])

\* C10: a returned path follows edges of the graph and repeats no node; at
\* every step every discovered node other than start has a predecessor
\* that is discovered, has an edge to it and is one hop nearer; and no
\* node is pushed to the queue twice.
C10_PathIsWalk ==
    /\ ReturnedPath =>
          LET p == Unwrap(result[1])
          IN  /\ \A i \in 1..(Len(p) - 1) : p[i + 1] \in Range(adj[p[i] + 1])
              /\ \A i, j \in DOMAIN p : p[i] = p[j] => i = j
    /\ spc \in {"loop", "check", "walk", "done"} =>
          /\ IsNone(prev[start + 1])
          /\ \A v \in 0..(Len(adj) - 1) :
                /\ pushed[v + 1] <= 1
                /\ (pushed[v + 1] = 1) <=> ~IsNone(distance[v + 1])
                /\ (v # start /\ ~IsNone(distance[v + 1])) =>
                      /\ ~IsNone(prev[v + 1])
                      /\ LET u == Unwrap(prev[v + 1])
                         IN  /\ v \in Range(adj[u + 1])
                             /\ ~IsNone(distance[u + 1])
                             /\ Unwrap(distance[v + 1]) = Unwrap(distance[u + 1]) + 1

C10_Witness ==
    /\ ReturnedPath
    /\ Len(Unwrap(result[1])) = 2
    /\ Occurrences(adj[start + 1], end) = 2
    /\ Len(adj[end + 1]) = 1

(***************************************************************************)
(* Properties of the graph builder and of bfs (Spec)                       *)
(***************************************************************************)
GraphBuilt == pc \in {"top5", "hubs", "path", "bfs", "done"}
NamesIn(rs) == {rs[i][1] : i \in DOMAIN rs} \cup {rs[i][2] : i \in DOMAIN rs}
RidesBetween(rs, s, d) == Cardinality({i \in DOMAIN rs : rs[i][1] = s /\ rs[i][2] = d})

\* C6: adjacency[u] holds v once per record from location u to location v,
\* and nothing else; every entry is an index below N.
C6_EdgePerRecord ==
    GraphBuilt =>
        LET N == Len(locations)
        IN  /\ Len(adjacency) = N
            /\ \A u \in 0..(N - 1) :
                  /\ Range(adjacency[u + 1]) \subseteq 0..(N - 1)
                  /\ \A v \in 0..(N - 1) :
                        Occurrences(adjacency[u + 1], v)
                            = RidesBetween(rides, locations[u + 1], locations[v + 1])

C6_Witness ==
    /\ GraphBuilt
    /\ Len(locations) = 3
    /\ \E u, v \in 0..2 : u # v /\ Occurrences(adjacency[u + 1], v) = 2

\* C7: locations holds the names that occur as a start or a stop of a
\* record, each once, in ascending lexicographic order, and adjacency has
\* one entry per location; no records give the empty graph.
C7_SortedLocations ==
    /\ pc # "unique_nodes" => nodes = NamesIn(rides)
    /\ GraphBuilt =>
          /\ Range(locations) = NamesIn(rides)
          /\ \A i \in 1..(Len(locations) - 1) : LexLt(locations[i], locations[i + 1])
          /\ Len(adjacency) = Len(locations)
          /\ (rides = << >> => locations = << >> /\ adjacency = << >>)

C7_Witness ==
    /\ GraphBuilt
    /\ Len(rides) = 2
    /\ locations = << NameOf(1), NameOf(3), NameOf(2) >>
    /\ rides[1][1] = NameOf(2)

\* C9: the distance table of source i has the entry Some(0) at i.
C9_SelfDistanceZero ==
    pc = "done" =>
        /\ Len(all) = Len(adjacency)
        /\ \A i \in 1..Len(all) :
              /\ Len(all[i]) = Len(adjacency)
              /\ all[i][i] = Some(0)

C9_Witness ==
    /\ pc = "done"
    /\ Len(all) = 3
    /\ \E i \in 1..3 : \E j \in 1..3 : all[i][j] = Some(2) /\ all[j][i] = None

(***************************************************************************)
(* Properties of most_frequent_pairs (SpecRoutes)                          *)
(***************************************************************************)
RoutesOf(rs) == {<< rs[i][1], rs[i][2] >> : i \in DOMAIN rs}
RouteEntry(rs, r) == << r, RidesBetween(rs, r[1], r[2]) >>
\* Entry a precedes entry b: more rides, or as many and the smaller pair.
Ahead(a, b) == a[2] > b[2] \/ (a[2] = b[2] /\ PairLt(a[1], b[1]))

\* C3: the result is the first min(k, D) entries of the D distinct routes
\* with their counts, by descending count and then ascending pair.
C3_TopRoutes ==
    pc = "done" =>
        LET k   == top[1]
            res == top[2]
            D   == RoutesOf(rides)
        IN  /\ Len(res) = Min(k, Cardinality(D))
            /\ \A i \in DOMAIN res : res[i][1] \in D /\ res[i] = RouteEntry(rides, res[i][1])
            /\ \A i, j \in DOMAIN res : i < j => Ahead(res[i], res[j])
            /\ \A r \in D : RouteEntry(rides, r) \notin Range(res) =>
                  \A i \in DOMAIN res : Ahead(res[i], RouteEntry(rides, r))

C3_Witness ==
    /\ pc = "done"
    /\ top[1] = 2
    /\ Cardinality(RoutesOf(rides)) = 3
    /\ top[2] = << << << NameOf(1), NameOf(1) >>, 1 >>, << << NameOf(1), NameOf(2) >>, 1 >> >>

(***************************************************************************)
(* Properties of popular_hubs (SpecHubs)                                   *)
(***************************************************************************)
Tally(rs, c, l) ==
    Cardinality({i \in DOMAIN rs : rs[i][3] = c /\ rs[i][1] = l})
        + Cardinality({i \in DOMAIN rs : rs[i][3] = c /\ rs[i][2] = l})
IsHub(rs, c, h) ==
    IF \A i \in DOMAIN rs : rs[i][3] # c
    THEN h = << >>
    ELSE /\ Tally(rs, c, h) > 0
         /\ \A l \in NamesIn(rs) : Tally(rs, c, l) <= Tally(rs, c, h)

\* C4: every call of popular_hubs on the same records returns the same pair.
C4_HubsDeterministic ==
    \A i, j \in DOMAIN hubs : hubs[i] = hubs[j]

\* C5: for each category the hub returned has the greatest tally of that
\* category, and is the empty name when the category has no record.
C5_HubHasMaxTally ==
    \A i \in DOMAIN hubs :
        /\ IsHub(rides, Personal, hubs[i][1])
        /\ IsHub(rides, Business, hubs[i][2])

C5_Witness ==
    /\ Len(hubs) = 2
    /\ Len(rides) = 3
    /\ hubs[2][2] = << >>
    /\ Tally(rides, Personal, NameOf(2)) = 4
    /\ Tally(rides, Personal, NameOf(1)) = 2
    /\ hubs[2][1] = NameOf(2)

====
